---- MODULE Spec2Model ----
(***************************************************************************)
(* The Flow Graph Engine client (flow_graphengine.py) and the addTrees     *)
(* driver (fge_addtrees.py).                                               *)
(*                                                                         *)
(* The program is sequential.  Every step of the model is one HTTP round   *)
(* trip of the client together with the code that runs up to the next      *)
(* round trip (or up to the return / the exception of the public method).  *)
(* The remote service is the environment: every response is drawn from a   *)
(* small set (network failure, any HTTP status, JSON or not, each field    *)
(* the code reads present or absent).                                      *)
(*                                                                         *)
(* Strings the code only passes around are TLA+ strings.  File paths, on   *)
(* which the code computes (os.path.basename, f-string formatting), are    *)
(* sequences of tokens in which "/" is the separator token.                *)
(***************************************************************************)
EXTENDS Integers, Sequences, FiniteSets, TLC

\* ------------------------------------------------------------- bounds
\* The service answers at most MaxPolls status polls of one wait with a
\* non-terminal status; the next answer is terminal or a failure.
MaxPolls == 2
\* The service lists at most MaxRecords log / output records for a job.
MaxRecords == 2

\* ------------------------------------------------------- value domains
Absent == "<absent>"
NoToken == "<no object>"

HTTP_OK == 200
HttpStatus == {200, 401, 403}

ClientIds == {"", "cid"}
ClientSecrets == {"", "secret"}
AccessTokens == {"", "tokA", "tokB"}

SCRATCH == "scratch:@default"
PLANE_USD == "plane.usd"
ADDTREES_JSON == "addTrees.json"
LocalFiles == {PLANE_USD, ADDTREES_JSON}
UploadPaths == LocalFiles \cup {"missing.usd"}
ResourceIds == {PLANE_USD, ADDTREES_JSON}
Urns == {"urn1", "urn2"}
JobIds == {"job1"}

NonTerminal == {"QUEUED", "RUNNING"}
\* faulty variant: CANCELED is not taken for terminal
TerminalWithoutCanceled == {"SUCCEEDED", "FAILED"}
\* line 140: ('SUCCEEDED', 'FAILED', 'CANCELED')
TERMINAL == {"SUCCEEDED", "FAILED", "CANCELED"}
JobStatuses == NonTerminal \cup {"SUCCEEDED", "FAILED", "CANCELED"}

SEP == "/"
Records ==
  { [spaceId |-> SCRATCH, resourceId |-> "resA", path |-> <<"a">>],
    [spaceId |-> SCRATCH, resourceId |-> "resB", path |-> <<"d", SEP, "b">>],
    [spaceId |-> SCRATCH, resourceId |-> "resD", path |-> <<"d", SEP>>] }
RecordLists == UNION { [1..n -> Records] : n \in 0..MaxRecords }

CWD == <<".">>
OUTDIR == <<".outputs">>
LOGDIR == <<".logs">>
JOBLOG_PREFIX == "joblog_"

\* ------------------------------------------------------ pure functions
RECURSIVE LastSep(_, _)
LastSep(p, i) ==
  IF i = 0 THEN 0 ELSE IF p[i] = SEP THEN i ELSE LastSep(p, i - 1)

\* os.path.basename: what follows the last separator.
Basename(p) == SubSeq(p, LastSep(p, Len(p)) + 1, Len(p))

\* f"{logdir}/joblog_{os.path.basename(log['path'])}"
LogFilepath(logdir, log) ==
  LET b == Basename(log.path)
  IN  logdir \o <<SEP>> \o <<JOBLOG_PREFIX>> \o b

\* f"{outdir}/{os.path.basename(output['path'])}"
OutputFilepath(outdir, output) == outdir \o <<SEP>> \o Basename(output.path)

\* faulty variant: the new path goes in front
PrependPath(list, p) == <<p>> \o list
\* log_filepaths.append(...) / output_filepaths.append(...)
AppendPath(list, p) == Append(list, p)

\* open(destination, 'wb') fails when the name is that of the directory.
IsDirectoryName(p) == Len(p) = 0 \/ p[Len(p)] = SEP

NoBearer == <<>>
\* faulty variant: the header is built without the token
BearerEmpty(token) == <<"Bearer ", "">>
\* f'Bearer {self.oauth_token}'
Bearer(token) == <<"Bearer ", token>>

\* ---------------------------------------------------- the environment
NetFail(dflt) == [net |-> FALSE, status |-> 0, json |-> FALSE, body |-> dflt]
\* What a request can come back with: no response at all, or a response of
\* any status whose body is not JSON, or is JSON with the fields of B.
Responses(B, dflt) ==
  {NetFail(dflt)}
    \cup {[net |-> TRUE, status |-> s, json |-> FALSE, body |-> dflt] : s \in HttpStatus}
    \cup [net : {TRUE}, status : HttpStatus, json : {TRUE}, body : B]

Str(S) == S \cup {Absent}
NoUpload == [url |-> Absent, resourceId |-> Absent, id |-> Absent]
UploadUrlBodies ==
  [url : Str({"signedPut"}), resourceId : Str(ResourceIds), id : Str({"upload1"})]
NoJob == [status |-> Absent]
JobBodies == [status : Str(JobStatuses)]
NoResults == [present |-> FALSE, results |-> <<>>]
ResultBodies == {NoResults} \cup [present : {TRUE}, results : RecordLists]
JobLists == {<<>>, <<"job1">>}
JobListBodies ==
  {[present |-> FALSE, results |-> <<>>]} \cup [present : {TRUE}, results : JobLists]

\* ---------------------------------------------------------- the state
VARIABLES
  caller,        \* "main": fge_addtrees.main drives the client; "any": any caller
  mpc,           \* the line of main that runs next
  mloc,          \* main's locals
  trace,         \* the calls main has made, in order
  client_id, client_secret, oauth_token, queue_id,   \* the object's fields
  issued,        \* the access_token of the token response
  pc,            \* the round trip the client makes next
  method,        \* the public method in progress (or the last one)
  args,          \* its arguments
  loc,           \* its locals
  outcome,       \* "none" | "returned" | "raised"
  ret,           \* its return value
  reqlog,        \* the requests sent by the method in progress
  steps,         \* the responses received by the innermost method in progress
  sleeps,        \* time.sleep calls of the wait in progress
  written,       \* the files written by the method in progress
  prevUpload     \* the last upload_file call that returned

callerVars == <<caller, mpc, mloc, trace, prevUpload>>
objVars == <<client_id, client_secret, oauth_token, queue_id, issued>>
callVars == <<pc, method, args, loc, outcome, ret, reqlog, steps, sleeps, written>>
vars == <<callerVars, objVars, callVars>>

NoArgs ==
  [path |-> Absent, space |-> Absent, resource |-> Absent, job_id |-> Absent,
   dir |-> <<>>, dest |-> <<>>,
   json |-> [definitionUri |-> Absent, inputUri |-> Absent]]
NoLoc ==
  [urlResp |-> NoUpload, etag |-> Absent, job |-> NoJob, results |-> <<>>,
   i |-> 0, filepaths |-> <<>>, space |-> Absent, resource |-> Absent,
   dest |-> <<>>, signedUrl |-> Absent]
NoRet == [val |-> Absent, job |-> NoJob, paths |-> <<>>, jobs |-> <<>>]
NoMloc ==
  [inputFileUrn |-> Absent, bifrostGraphUrn |-> Absent, job_id |-> Absent,
   job |-> NoJob]
NoPrev == [path |-> Absent, space |-> Absent, resource |-> Absent, urn |-> Absent]

Request(kind, auth, data) == [kind |-> kind, auth |-> auth, data |-> data]
Step(kind, r, val) == [kind |-> kind, net |-> r.net, status |-> r.status, val |-> val]

Init ==
  /\ caller \in {"main", "any"}
  /\ mpc = IF caller = "main" THEN "L23" ELSE "none"
  /\ mloc = NoMloc
  /\ trace = IF caller = "main" THEN <<[op |-> "__init__", val |-> Absent]>> ELSE <<>>
  /\ client_id \in ClientIds
  /\ client_secret \in ClientSecrets
  /\ oauth_token = NoToken
  /\ queue_id = "@default"
  /\ issued = NoToken
  /\ pc = "init"
  /\ method = "__init__"
  /\ args = NoArgs
  /\ loc = NoLoc
  /\ outcome = "none"
  /\ ret = NoRet
  /\ reqlog = <<>>
  /\ steps = <<>>
  /\ sleeps = 0
  /\ written = {}
  /\ prevUpload = NoPrev

\* An exception leaves the public method; nothing in the client catches it.
Raise ==
  /\ pc' = "ready"
  /\ outcome' = "raised"
  /\ ret' = NoRet

Return(v) ==
  /\ pc' = "ready"
  /\ outcome' = "returned"
  /\ ret' = v

\* ------------------------------------------------- __init__ and token
\* _generate_oauth_token: response.json()['access_token']
TokenRaises(r) == ~r.net \/ ~r.json \/ r.body = Absent

generate_oauth_token ==
  /\ pc = "init"
  /\ IF client_id = "" \/ client_secret = ""
       THEN \* assert(self.client_id) / assert(self.client_secret)
            /\ pc' = "dead"
            /\ outcome' = "raised"
            /\ UNCHANGED <<oauth_token, issued, reqlog, steps>>
       ELSE \E r \in Responses(Str(AccessTokens), Absent) :
            /\ reqlog' = Append(reqlog, Request("token", NoBearer, <<client_id, client_secret>>))
            /\ steps' = Append(steps, Step("token", r, r.body))
            /\ IF TokenRaises(r)
                 THEN /\ pc' = "dead"
                      /\ outcome' = "raised"
                      /\ UNCHANGED <<oauth_token, issued>>
                 ELSE /\ oauth_token' = r.body
                      /\ issued' = r.body
                      /\ pc' = "ready"
                      /\ outcome' = "returned"
  /\ UNCHANGED <<callerVars, client_id, client_secret, queue_id, method, args, loc, ret,
                 sleeps, written>>

\* ------------------------------------------------------- upload_file
\* line 104 reads getInputFileUploadUrlResponse['urls'][0]['url']
UploadUrlRaises(r) == ~r.net \/ ~r.json \/ r.body.url = Absent

get_resource_upload_url ==
  /\ pc = "upload_urls"
  /\ \E r \in Responses(UploadUrlBodies, NoUpload) :
       /\ reqlog' = Append(reqlog, Request("upload-urls", Bearer(oauth_token),
                                            <<args.space, args.resource>>))
       /\ steps' = Append(steps, Step("upload-urls", r, r.body.url))
       /\ IF UploadUrlRaises(r)
            THEN Raise /\ UNCHANGED loc
            ELSE /\ loc' = [loc EXCEPT !.urlResp = r.body]
                 /\ pc' = "put"
                 /\ UNCHANGED <<outcome, ret>>
  /\ UNCHANGED <<callerVars, objVars, method, args, sleeps, written>>

\* line 105 reads ['upload']['resourceId'] and ['upload']['id'] after the PUT
UploadIdsMissing(u) == u.resourceId = Absent \/ u.id = Absent

\* _upload_to_signed_url: response.headers['etag']
PutRaises(r) == ~r.net \/ r.body = Absent

upload_to_signed_url ==
  /\ pc = "put"
  /\ IF args.path \notin LocalFiles
       THEN \* open(path_to_file, 'rb') raises
            Raise /\ UNCHANGED <<loc, reqlog, steps>>
       ELSE \E r \in {NetFail(Absent)} \cup [net : {TRUE}, status : HttpStatus,
                                              json : {FALSE}, body : Str({"etag1"})] :
            /\ reqlog' = Append(reqlog, Request("put", NoBearer,
                                                 <<loc.urlResp.url, args.path>>))
            /\ steps' = Append(steps, Step("put", r, r.body))
            /\ IF PutRaises(r) \/ UploadIdsMissing(loc.urlResp)
                 THEN Raise /\ UNCHANGED loc
                 ELSE /\ loc' = [loc EXCEPT !.etag = r.body]
                      /\ pc' = "complete"
                      /\ UNCHANGED <<outcome, ret>>
  /\ UNCHANGED <<callerVars, objVars, method, args, sleeps, written>>

\* faulty variant: the resource id is returned for the URN
CompleteResultResourceId(r, l) == l.urlResp.resourceId
\* _complete_upload: response.json()['urn']
CompleteResult(r, l) == r.body

complete_upload ==
  /\ pc = "complete"
  /\ \E r \in Responses(Str(Urns), Absent) :
       /\ reqlog' = Append(reqlog, Request("complete", Bearer(oauth_token),
                              <<args.space, loc.urlResp.resourceId, loc.urlResp.id, loc.etag>>))
       /\ steps' = Append(steps, Step("complete", r, r.body))
       /\ IF ~r.net \/ ~r.json \/ r.body = Absent
            THEN Raise
            ELSE Return([NoRet EXCEPT !.val = CompleteResult(r, loc)])
  /\ UNCHANGED <<callerVars, objVars, method, args, loc, sleeps, written>>

\* -------------------------------------------------- submit_job, list_jobs
submit_job ==
  /\ pc = "submit"
  /\ \E r \in Responses(Str(JobIds), Absent) :
       /\ reqlog' = Append(reqlog, Request("submit", Bearer(oauth_token),
                                            <<args.json.definitionUri, args.json.inputUri>>))
       /\ steps' = Append(steps, Step("submit", r, r.body))
       /\ IF ~r.net \/ ~r.json \/ r.body = Absent
            THEN Raise
            ELSE Return([NoRet EXCEPT !.val = r.body])
  /\ UNCHANGED <<callerVars, objVars, method, args, loc, sleeps, written>>

list_jobs ==
  /\ pc = "list_jobs"
  /\ \E r \in Responses(JobListBodies, [present |-> FALSE, results |-> <<>>]) :
       /\ reqlog' = Append(reqlog, Request("jobs", Bearer(oauth_token), <<queue_id>>))
       /\ steps' = Append(steps, Step("jobs", r, Absent))
       /\ IF ~r.net \/ ~r.json \/ ~r.body.present
            THEN Raise
            ELSE Return([NoRet EXCEPT !.jobs = r.body.results])
  /\ UNCHANGED <<callerVars, objVars, method, args, loc, sleeps, written>>

\* ------------------------------- get_job_data, wait_for_job_to_complete
\* faulty variant: a response without a status is retried like a non-terminal one
WaitDecisionRetryOnError(job) ==
  IF job.status \in TERMINAL THEN "return" ELSE "sleep"
\* lines 139-142: job['status'] is read (KeyError when there is none), the
\* loop breaks on a terminal status and sleeps otherwise.
WaitDecision(job) ==
  IF job.status = Absent THEN "raise"
  ELSE IF job.status \in TERMINAL THEN "return"
  ELSE "sleep"

\* The service's answers to one wait: see MaxPolls.
StatusAnswers ==
  IF method = "wait_for_job_to_complete" /\ Len(steps) >= MaxPolls
    THEN { r \in Responses(JobBodies, NoJob) : r.body.status \notin NonTerminal }
    ELSE Responses(JobBodies, NoJob)

get_job_data ==
  /\ pc = "job_data"
  /\ \E r \in StatusAnswers :
       /\ reqlog' = Append(reqlog, Request("job", Bearer(oauth_token), <<args.job_id>>))
       /\ steps' = Append(steps, Step("job", r, r.body.status))
       /\ IF ~r.net \/ ~r.json
            THEN Raise /\ UNCHANGED loc
            ELSE IF method = "get_job_data"
              THEN Return([NoRet EXCEPT !.job = r.body]) /\ UNCHANGED loc
              ELSE /\ loc' = [loc EXCEPT !.job = r.body]
                   /\ CASE WaitDecision(r.body) = "raise" -> Raise
                        [] WaitDecision(r.body) = "return" ->
                             Return([NoRet EXCEPT !.job = r.body])
                        [] OTHER -> pc' = "sleep" /\ UNCHANGED <<outcome, ret>>
  /\ UNCHANGED <<callerVars, objVars, method, args, sleeps, written>>

\* time.sleep(sleep_seconds), then the loop polls again
sleep ==
  /\ pc = "sleep"
  /\ sleeps' = sleeps + 1
  /\ pc' = "job_data"
  /\ UNCHANGED <<callerVars, objVars, method, args, loc, outcome, ret, reqlog, steps, written>>

\* ------------------------------------------------------------ downloads
\* The path of record i of the listing, as the loop body computes it.
Filepath(m, dir, rec) ==
  IF m = "download_job_logs" THEN LogFilepath(dir, rec) ELSE OutputFilepath(dir, rec)

\* download_job_logs / download_job_outputs reach record i: the call of
\* self.download_file(rec['spaceId'], rec['resourceId'], filepath)
EnterRecord(l, results, i, paths) ==
  [l EXCEPT !.results = results, !.i = i, !.filepaths = paths,
            !.space = results[i].spaceId, !.resource = results[i].resourceId,
            !.dest = Filepath(method, args.dir, results[i]), !.signedUrl = Absent]

Listing(kind) ==
  \E r \in Responses(ResultBodies, NoResults) :
    /\ reqlog' = Append(reqlog, Request(kind, Bearer(oauth_token), <<args.job_id>>))
    /\ IF ~r.net \/ ~r.json \/ ~r.body.present
         THEN Raise /\ UNCHANGED loc /\ steps' = Append(steps, Step(kind, r, Absent))
         ELSE IF Len(r.body.results) = 0
           THEN /\ Return([NoRet EXCEPT !.paths = <<>>])
                /\ loc' = [loc EXCEPT !.results = r.body.results]
                /\ steps' = Append(steps, Step(kind, r, "results"))
           ELSE /\ loc' = EnterRecord(loc, r.body.results, 1, <<>>)
                /\ pc' = "download_url"
                /\ steps' = <<>>
                /\ UNCHANGED <<outcome, ret>>
    /\ UNCHANGED <<callerVars, objVars, method, args, sleeps, written>>

get_log_data == pc = "logs_list" /\ Listing("logs")

get_output_data == pc = "outputs_list" /\ Listing("outputs")

get_download_url_for_resource ==
  /\ pc = "download_url"
  /\ \E r \in Responses(Str({"signedGet"}), Absent) :
       /\ reqlog' = Append(reqlog, Request("download-url", Bearer(oauth_token),
                                            <<loc.space, loc.resource>>))
       /\ steps' = Append(steps, Step("download-url", r, r.body))
       /\ IF ~r.net \/ ~r.json \/ r.body = Absent
            THEN Raise /\ UNCHANGED loc
            ELSE /\ loc' = [loc EXCEPT !.signedUrl = r.body]
                 /\ pc' = "signed_get"
                 /\ UNCHANGED <<outcome, ret>>
  /\ UNCHANGED <<callerVars, objVars, method, args, sleeps, written>>

\* line 169: if response.status_code == 200
StatusOk(status) == status = HTTP_OK

download_file_from_signed_url ==
  /\ pc = "signed_get"
  /\ \E r \in {NetFail(Absent)} \cup [net : {TRUE}, status : HttpStatus,
                                        json : {FALSE}, body : {Absent}] :
       /\ reqlog' = Append(reqlog, Request("signed-get", NoBearer, <<loc.signedUrl>>))
       /\ IF ~r.net \/ (StatusOk(r.status) /\ IsDirectoryName(loc.dest))
            THEN \* requests.get / iter_content raises, or open(destination, 'wb') does
                 /\ Raise
                 /\ steps' = Append(steps, Step("signed-get", r, Absent))
                 /\ UNCHANGED <<loc, written>>
            ELSE /\ written' = IF StatusOk(r.status) THEN written \cup {loc.dest} ELSE written
                 /\ IF method = "download_file"
                      THEN /\ Return(NoRet)
                           /\ steps' = Append(steps, Step("signed-get", r, Absent))
                           /\ UNCHANGED loc
                      ELSE LET paths == AppendPath(loc.filepaths, loc.dest)
                           IN  IF loc.i = Len(loc.results)
                                 THEN /\ Return([NoRet EXCEPT !.paths = paths])
                                      /\ loc' = [loc EXCEPT !.filepaths = paths]
                                      /\ steps' = Append(steps, Step("signed-get", r, Absent))
                                 ELSE /\ loc' = EnterRecord(loc, loc.results, loc.i + 1, paths)
                                      /\ pc' = "download_url"
                                      /\ steps' = <<>>
                                      /\ UNCHANGED <<outcome, ret>>
  /\ UNCHANGED <<callerVars, objVars, method, args, sleeps>>

\* ------------------------------------------------------------ callers
\* A public method is entered: its frame is fresh.
Begin(m, a, first) ==
  /\ method' = m
  /\ args' = a
  /\ loc' = IF m = "download_file"
              THEN [NoLoc EXCEPT !.space = a.space, !.resource = a.resource, !.dest = a.dest]
              ELSE NoLoc
  /\ pc' = first
  /\ outcome' = "none"
  /\ ret' = NoRet
  /\ reqlog' = <<>>
  /\ steps' = <<>>
  /\ sleeps' = 0
  /\ written' = {}
  /\ prevUpload' =
       IF method = "upload_file" /\ outcome = "returned"
         THEN [path |-> args.path, space |-> args.space, resource |-> args.resource,
               urn |-> ret.val]
         ELSE prevUpload

AnyCall(m, a, first) ==
  /\ caller = "any"
  /\ pc = "ready"
  /\ Begin(m, a, first)
  /\ UNCHANGED <<caller, mpc, mloc, trace, objVars>>

CallUploadFile ==
  \E p \in UploadPaths, res \in ResourceIds :
    AnyCall("upload_file", [NoArgs EXCEPT !.path = p, !.space = SCRATCH, !.resource = res],
            "upload_urls")

CallSubmitJob ==
  \E u \in Urns :
    AnyCall("submit_job",
            [NoArgs EXCEPT !.json = [definitionUri |-> u, inputUri |-> u]], "submit")

CallListJobs == AnyCall("list_jobs", NoArgs, "list_jobs")

CallGetJobData ==
  \E j \in JobIds : AnyCall("get_job_data", [NoArgs EXCEPT !.job_id = j], "job_data")

CallWaitForJobToComplete ==
  \E j \in JobIds :
    AnyCall("wait_for_job_to_complete", [NoArgs EXCEPT !.job_id = j], "job_data")

CallDownloadFile ==
  \E rec \in Records :
    AnyCall("download_file",
            [NoArgs EXCEPT !.space = rec.spaceId, !.resource = rec.resourceId,
                           !.dest = CWD \o <<SEP>> \o Basename(rec.path)],
            "download_url")

CallDownloadJobLogs ==
  \E j \in JobIds :
    AnyCall("download_job_logs", [NoArgs EXCEPT !.job_id = j, !.dir = CWD], "logs_list")

CallDownloadJobOutputs ==
  \E j \in JobIds :
    AnyCall("download_job_outputs", [NoArgs EXCEPT !.job_id = j, !.dir = CWD], "outputs_list")

\* ------------------------------------------------- fge_addtrees.main
\* faulty variant: main goes from list_jobs to the downloads without waiting
MainLineSkipWait(l) ==
  CASE l = "L23" -> "L24" [] l = "L24" -> "L112" [] l = "L112" -> "L116"
    [] l = "L116" -> "L128" [] l = "L120" -> "L128" [] l = "L128" -> "L134"
    [] l = "L134" -> "L136" [] OTHER -> "L136"
\* The line of main that calls the client after line l has.
MainLine(l) ==
  CASE l = "L23" -> "L24" [] l = "L24" -> "L112" [] l = "L112" -> "L116"
    [] l = "L116" -> "L120" [] l = "L120" -> "L128" [] l = "L128" -> "L134"
    [] l = "L134" -> "L136" [] OTHER -> "L136"

\* The call that returned is recorded with the value main keeps of it.
Returned(val) == [trace EXCEPT ![Len(trace)].val = val]

\* main runs on when the call it made has returned; an exception ends it.
MainStep(line, m, a, first, newloc, val) ==
  /\ caller = "main"
  /\ mpc = line
  /\ pc = "ready"
  /\ outcome = "returned"
  /\ mloc' = newloc
  /\ mpc' = MainLine(line)
  /\ trace' = Append(Returned(val), [op |-> m, val |-> Absent])
  /\ Begin(m, a, first)
  /\ UNCHANGED <<caller, objVars>>

\* the job_json of lines 27-109, as far as it depends on the run
JobJson(l) == [definitionUri |-> l.bifrostGraphUrn, inputUri |-> l.inputFileUrn]

Main_L23 ==
  MainStep("L23", "upload_file",
           [NoArgs EXCEPT !.path = PLANE_USD, !.space = SCRATCH, !.resource = PLANE_USD],
           "upload_urls", mloc, oauth_token)

Main_L24 ==
  MainStep("L24", "upload_file",
           [NoArgs EXCEPT !.path = ADDTREES_JSON, !.space = SCRATCH, !.resource = ADDTREES_JSON],
           "upload_urls", [mloc EXCEPT !.inputFileUrn = ret.val], ret.val)

Main_L112 ==
  LET l == [mloc EXCEPT !.bifrostGraphUrn = ret.val]
  IN  MainStep("L112", "submit_job", [NoArgs EXCEPT !.json = JobJson(l)], "submit",
               l, ret.val)

Main_L116 ==
  MainStep("L116", "list_jobs", NoArgs, "list_jobs",
           [mloc EXCEPT !.job_id = ret.val], ret.val)

Main_L120 ==
  MainStep("L120", "wait_for_job_to_complete", [NoArgs EXCEPT !.job_id = mloc.job_id],
           "job_data", mloc, "joblist")

Main_L128 ==
  MainStep("L128", "download_job_outputs",
           [NoArgs EXCEPT !.job_id = mloc.job_id, !.dir = OUTDIR], "outputs_list",
           [mloc EXCEPT !.job = ret.job], ret.job.status)

Main_L134 ==
  MainStep("L134", "download_job_logs",
           [NoArgs EXCEPT !.job_id = mloc.job_id, !.dir = LOGDIR], "logs_list",
           mloc, "filenames")

\* line 135 prints the log file names and main returns
Main_L136 ==
  /\ caller = "main"
  /\ mpc = "L136"
  /\ pc = "ready"
  /\ outcome = "returned"
  /\ mpc' = "end"
  /\ trace' = Returned("filenames")
  /\ UNCHANGED <<caller, mloc, prevUpload, objVars, callVars>>

Next ==
  \/ generate_oauth_token
  \/ get_resource_upload_url
  \/ upload_to_signed_url
  \/ complete_upload
  \/ submit_job
  \/ list_jobs
  \/ get_job_data
  \/ sleep
  \/ get_log_data
  \/ get_output_data
  \/ get_download_url_for_resource
  \/ download_file_from_signed_url
  \/ CallUploadFile
  \/ CallSubmitJob
  \/ CallListJobs
  \/ CallGetJobData
  \/ CallWaitForJobToComplete
  \/ CallDownloadFile
  \/ CallDownloadJobLogs
  \/ CallDownloadJobOutputs
  \/ Main_L23
  \/ Main_L24
  \/ Main_L112
  \/ Main_L116
  \/ Main_L120
  \/ Main_L128
  \/ Main_L134
  \/ Main_L136

Spec == Init /\ [][Next]_vars

\* ====================================================== the properties
ClaimTerminal == {"SUCCEEDED", "FAILED", "CANCELED"}
InWait == method = "wait_for_job_to_complete"
InUpload == method = "upload_file"
InJobDownload == method \in {"download_job_logs", "download_job_outputs"}
Kinds(log) == [i \in 1..Len(log) |-> log[i].kind]
LastStep == steps[Len(steps)]
\* a status check that failed: no response, or a response carrying no status
CheckFailed(s) == ~s.net \/ s.val = Absent
FetchedNonTerminal(s) == s.net /\ s.val # Absent /\ s.val \notin ClaimTerminal
FetchedTerminal(s) == s.net /\ s.val \in ClaimTerminal
IsPrefix(a, b) == Len(a) <= Len(b) /\ \A i \in 1..Len(a) : a[i] = b[i]

\* C1: wait_for_job_to_complete returns exactly at the first status response
\* whose status is SUCCEEDED, FAILED or CANCELED, and returns that record:
\* every response before the last one of the wait carried a non-terminal
\* status, the wait has returned if and only if its last response carried a
\* terminal status, and no poll and no sleep follows that response.
C1_WaitReturnsAtFirstTerminal ==
  InWait =>
    /\ \A i \in 1..(Len(steps) - 1) : ~FetchedTerminal(steps[i])
    /\ (outcome = "returned") <=> (Len(steps) > 0 /\ FetchedTerminal(LastStep))
    /\ outcome = "returned" =>
         /\ ret.job.status = LastStep.val
         /\ Len(reqlog) = Len(steps)
         /\ sleeps = Len(steps) - 1
         /\ pc = "ready"

\* C1 witness: a wait that returned after at least one non-terminal status
C1_Witness ==
  /\ InWait /\ outcome = "returned"
  /\ Len(steps) >= 2 /\ sleeps >= 1
  /\ ret.job.status = "CANCELED"

\* C2 (as stated): once the token endpoint has answered 401 or 403, the
\* constructor has raised and the client holds no token.
C2_NoTokenAfter401 ==
  (method = "__init__" /\ Len(steps) > 0 /\ LastStep.status \in {401, 403}) =>
    (outcome = "raised" /\ oauth_token = NoToken)

\* the path the listing's record stands for, written out independently
NameAfterLastSlash(p) ==
  CHOOSE t \in {SubSeq(p, k + 1, Len(p)) : k \in 0..Len(p)} :
    /\ \A j \in 1..Len(t) : t[j] # "/"
    /\ (Len(t) = Len(p) \/ p[Len(p) - Len(t)] = "/")
DerivedPath(m, dir, rec) ==
  IF m = "download_job_logs"
    THEN dir \o <<"/", "joblog_">> \o NameAfterLastSlash(rec.path)
    ELSE dir \o <<"/">> \o NameAfterLastSlash(rec.path)

\* C3: the path list download_job_logs / download_job_outputs returns has the
\* length of the record list the listing call returned and its i-th path is
\* derived from the i-th record; an empty record list gives an empty path
\* list and no error.
C3_PathsFollowRecords ==
  InJobDownload =>
    /\ outcome = "returned" =>
         /\ Len(ret.paths) = Len(loc.results)
         /\ \A i \in 1..Len(loc.results) :
              ret.paths[i] = DerivedPath(method, args.dir, loc.results[i])
    /\ (Len(steps) = 1 /\ LastStep.val = "results" /\ loc.results = <<>>) =>
         (outcome = "returned" /\ ret.paths = <<>>)

\* C3 witness: two different records came back as two paths
C3_Witness ==
  /\ InJobDownload /\ outcome = "returned"
  /\ Len(loc.results) = 2 /\ Len(ret.paths) = 2
  /\ ret.paths[1] # ret.paths[2]

ApiKinds ==
  {"upload-urls", "complete", "submit", "jobs", "job", "logs", "outputs", "download-url"}

\* C4: once the constructor has stored the token, the stored token stays the
\* one the token endpoint issued, and every request to the service API
\* carries exactly that token as the bearer value of its Authorization
\* header.
C4_TokenVerbatim ==
  oauth_token # NoToken =>
    /\ oauth_token = issued
    /\ \A i \in 1..Len(reqlog) :
         reqlog[i].kind \in ApiKinds => reqlog[i].auth = <<"Bearer ", issued>>

\* C4 witness: an upload went through with a token the service issued
C4_Witness ==
  /\ InUpload /\ outcome = "returned"
  /\ issued = "tokA"
  /\ prevUpload.urn # Absent

\* C5 (as stated): download_file returns normally only with the resource
\* written to the destination path, and only after both responses reported
\* success.
C5_DownloadFileWritesOrFails ==
  (method = "download_file" /\ outcome = "returned") =>
    /\ args.dest \in written
    /\ \A i \in 1..Len(steps) : steps[i].status = 200

\* C6 (as stated): every path of a list download_job_logs /
\* download_job_outputs returns names a file this call wrote.
C6_ReturnedPathsWritten ==
  (InJobDownload /\ outcome = "returned") =>
    \A i \in 1..Len(ret.paths) : ret.paths[i] \in written

StepSucceeded(s) == s.net /\ s.status = 200

\* C7 (as stated): upload_file sends upload-urls, PUT, complete in this
\* order; a sub-step that fails (no response or a status other than success)
\* ends the upload with an error, so no request follows a failed sub-step
\* and a URN is returned only after three successful sub-steps.
C7_UploadAbortsOnFailure ==
  InUpload =>
    /\ IsPrefix(Kinds(reqlog), <<"upload-urls", "put", "complete">>)
    /\ \A i \in 1..(Len(steps) - 1) : StepSucceeded(steps[i])
    /\ (Len(steps) > 0 /\ ~StepSucceeded(LastStep)) => outcome = "raised"
    /\ outcome = "returned" => Len(steps) = 3

ClaimedOrder ==
  <<"__init__", "upload_file", "upload_file", "submit_job",
    "wait_for_job_to_complete", "download_job_outputs", "download_job_logs">>
CallsMade == [i \in 1..Len(trace) |-> trace[i].op]
NotListJobs(op) == op # "list_jobs"

\* C8: main calls the client in the order constructor, upload, upload,
\* submit, wait, download outputs, download logs; a listing of outputs or
\* logs is requested only after a wait returned a terminal status, the one
\* job submitted references the URNs the two uploads returned, and it is
\* polled under the id the submission returned.
C8_DriverOrder ==
  caller = "main" =>
    /\ IsPrefix(SelectSeq(CallsMade, NotListJobs), ClaimedOrder)
    /\ Cardinality({i \in 1..Len(trace) : trace[i].op = "submit_job"}) <= 1
    /\ \A k \in 1..Len(reqlog) :
         /\ reqlog[k].kind \in {"outputs", "logs"} =>
              \E i \in 1..Len(trace) :
                /\ trace[i].op = "wait_for_job_to_complete"
                /\ trace[i].val \in ClaimTerminal
         /\ reqlog[k].kind = "submit" =>
              /\ Len(trace) >= 3
              /\ trace[2].op = "upload_file" /\ trace[2].val \in Urns
              /\ trace[3].op = "upload_file" /\ trace[3].val \in Urns
              /\ reqlog[k].data = <<trace[3].val, trace[2].val>>
         /\ reqlog[k].kind = "job" =>
              \E i \in 1..Len(trace) :
                /\ trace[i].op = "submit_job"
                /\ trace[i].val \in JobIds
                /\ reqlog[k].data = <<trace[i].val>>

\* C8 witness: main ran to its end
C8_Witness ==
  /\ caller = "main" /\ mpc = "end"
  /\ Len(trace) = 8

SameUploadAgain ==
  /\ InUpload /\ outcome = "returned"
  /\ prevUpload.urn # Absent
  /\ prevUpload.path = args.path
  /\ prevUpload.space = args.space
  /\ prevUpload.resource = args.resource

\* C9 (as stated): a second upload_file of the same file, space and resource
\* goes through the three steps again and returns a URN different from the
\* first.
C9_TwoDistinctUrns ==
  SameUploadAgain =>
    /\ Kinds(reqlog) = <<"upload-urls", "put", "complete">>
    /\ ret.val # prevUpload.urn

\* C9 (amended): a second upload_file of the same file, space and resource
\* goes through the three steps again and returns the URN of its own
\* finalize response, whatever the first call returned.
C9_SecondUploadRunsProtocol ==
  SameUploadAgain =>
    /\ Kinds(reqlog) = <<"upload-urls", "put", "complete">>
    /\ Len(steps) = 3
    /\ ret.val = steps[3].val
    /\ steps[3].val \in Urns

\* C9 witness: the second upload of the same file came back with the same URN
C9_Witness ==
  /\ SameUploadAgain
  /\ ret.val = prevUpload.urn

\* C10: the wait polls again only after a status check that fetched a
\* non-terminal status; a failed check (no response, or a response without a
\* status) raises at once and is the last request of the wait; after a
\* fetched non-terminal status the wait is still running (it sleeps, then
\* polls), however many polls came before.
C10_PollRetriesOnStatusOnly ==
  InWait =>
    /\ \A i \in 1..(Len(steps) - 1) : FetchedNonTerminal(steps[i])
    /\ (Len(steps) > 0 /\ CheckFailed(LastStep)) =>
         (outcome = "raised" /\ pc = "ready" /\ Len(reqlog) = Len(steps))
    /\ (Len(steps) > 0 /\ FetchedNonTerminal(LastStep)) =>
         (outcome = "none" /\ pc \in {"sleep", "job_data"})
    /\ outcome = "raised" => (Len(steps) > 0 /\ CheckFailed(LastStep))

\* C10 witness: a check failed after a non-terminal status and the wait raised
C10_Witness ==
  /\ InWait /\ outcome = "raised"
  /\ Len(steps) >= 2
  /\ LastStep.net /\ LastStep.val = Absent

====
